---- MODULE Spec2Model ----
(***************************************************************************)
(* vec-x: a fixed-length array VecX<T, N> and the deduplicating indexed    *)
(* collection IndexedVecXs<T, N> built on it (src/src/vec_x.rs,            *)
(* src/src/collection.rs).                                                 *)
(*                                                                         *)
(* A VecX is its `data` array, a sequence of elements.  An IndexSet is the *)
(* sequence of its entries in insertion order (no two entries equal).      *)
(* Positions are 0-based as in the source; TLA+ sequences are 1-based, so  *)
(* position i of the source is element i + 1 of the sequence.              *)
(***************************************************************************)
EXTENDS Integers, Sequences, FiniteSets, TLC

\* ---------------------------------------------------------------- bounds
ArityN == 2        \* N of the vectors held by the collection
MaxElem == 1       \* element values are 0 .. MaxElem
NumVecs == 3       \* number of distinct vectors handed to the collection
MaxLen == 3        \* most occurrences a collection holds
MaxNewLen == 1     \* longest values / indices handed to new
MaxArity == 3      \* largest N of a free-standing VecX
MaxM == 5          \* largest M of fit::<M>
MaxOpArity == 2    \* largest N of the operands of a comparison or a sum

Elem == 0 .. MaxElem
Default == 0       \* T::default() of an integer element type

SeqsUpTo(S, n) == UNION {[1 .. k -> S] : k \in 0 .. n}

\* the k-th VecX<T, N>: the digits of k, least significant first
VecOf(k) ==
    [i \in 1 .. ArityN |-> (k \div ((MaxElem + 1) ^ (i - 1))) % (MaxElem + 1)]
Vecs == {VecOf(k) : k \in 0 .. NumVecs - 1}   \* handed to the collection
AnyVecs == SeqsUpTo(Elem, MaxArity)      \* VecX<T, N> for every N <= MaxArity

\* the doc tests' inputs
DocColors ==
    LET A == VecOf(1)
        B == VecOf(2)
        C == VecOf(0)
    IN  <<A, B, A, A, C, B>>
DocFitVec == <<1, 2, 3>>
DocCmpPairs ==
    {<<(<<1, 2, 3>>), (<<1, 2, 3>>)>>, <<(<<1, 2, 3>>), (<<4, 5, 6>>)>>,
     <<(<<1, 2, 3>>), (<<1, 2, 2>>)>>, <<(<<1, 2, 1>>), (<<2, 1, 2>>)>>}

Min(a, b) == IF a < b THEN a ELSE b

\* ------------------------------------------------------- results of calls
Panic == [kind |-> "panic"]
Some(x) == [some |-> TRUE, val |-> x]
None == [some |-> FALSE]
Ret(k, x) == [kind |-> k, val |-> x]

\* ------------------------------------------------------------------ VecX
VecEq_first(a, b) == Len(a) = Len(b) /\ (Len(a) > 0 => a[1] = b[1])

\* #[derive(PartialEq)] on VecX { data: [T; N] }: element-wise equality
VecEq(a, b) == Len(a) = Len(b) /\ \A i \in 1 .. Len(a) : a[i] = b[i]

\* Index<usize> for VecX: &self.data[index]
vecx_index(v, i) == IF i < Len(v) THEN Ret("elem", v[i + 1]) ELSE Panic

\* IndexMut<usize> for VecX and the store through the returned reference:
\* the vector afterwards
vecx_index_mut(v, i, x) ==
    IF i < Len(v) THEN Ret("vec", [v EXCEPT ![i + 1] = x]) ELSE Panic

\* the loop of fit: (0..N.min(M)).for_each(|i| data[i] = self.data[i]);
\* self is the receiver's data, out the array under construction
RECURSIVE FitLoop(_, _, _, _)
FitLoop(self, data, i, end) ==
    IF i >= end THEN [self |-> self, out |-> data]
    ELSE FitLoop(self, [data EXCEPT ![i + 1] = self[i + 1]], i + 1, end)

fit_short(v, m) ==
    FitLoop(v, [i \in 1 .. m |-> Default], 0, Min(Len(v), m) - 1)

\* VecX::fit::<M>
fit(v, m) == FitLoop(v, [i \in 1 .. m |-> Default], 0, Min(Len(v), m))

\* T is an unsigned integer type holding TMin .. TMax
TMin == 0
TMax == MaxElem

\* T + T: out of range, the sum panics in a build with overflow checks and
\* wraps in a build without
elem_add(x, y, oc) ==
    IF x + y > TMax
    THEN IF oc THEN Panic ELSE Ret("elem", (x + y) % (TMax + 1))
    ELSE Ret("elem", x + y)

elem_sub_sat(x, y, oc) ==
    IF x - y < TMin
    THEN IF oc THEN Panic ELSE Ret("elem", TMin)
    ELSE Ret("elem", x - y)

\* T - T, likewise
elem_sub(x, y, oc) ==
    IF x - y < TMin
    THEN IF oc THEN Panic ELSE Ret("elem", (x - y) % (TMax + 1))
    ELSE Ret("elem", x - y)

\* (0..N).for_each(|i| self.data[i] = self.data[i] + rhs.data[i].into())
RECURSIVE AddLoop(_, _, _, _)
AddLoop(self, rhs, i, oc) ==
    IF i >= Len(self) THEN Ret("vec", self)
    ELSE LET e == elem_add(self[i + 1], rhs[i + 1], oc)
         IN  IF e.kind = "panic" THEN Panic
             ELSE AddLoop([self EXCEPT ![i + 1] = e.val], rhs, i + 1, oc)

\* Add<VecX<U, N>> for VecX<T, N>
add(self, rhs, oc) == AddLoop(self, rhs, 0, oc)

\* (0..N).for_each(|i| self.data[i] = self.data[i] - rhs.data[i].into())
RECURSIVE SubLoop(_, _, _, _)
SubLoop(self, rhs, i, oc) ==
    IF i >= Len(self) THEN Ret("vec", self)
    ELSE LET e == elem_sub(self[i + 1], rhs[i + 1], oc)
         IN  IF e.kind = "panic" THEN Panic
             ELSE SubLoop([self EXCEPT ![i + 1] = e.val], rhs, i + 1, oc)

\* Sub<VecX<U, N>> for VecX<T, N>
sub(self, rhs, oc) == SubLoop(self, rhs, 0, oc)

partial_cmp_strict(a, b) ==
    IF VecEq(a, b) THEN Ret("ordering", "Equal")
    ELSE IF \A i \in 1 .. Len(a) : a[i] > b[i] THEN Ret("ordering", "Greater")
    ELSE IF \A i \in 1 .. Len(a) : a[i] < b[i] THEN Ret("ordering", "Less")
    ELSE Ret("ordering", "None")

\* PartialOrd::partial_cmp for VecX: Some(Equal / Greater / Less) or None
partial_cmp(a, b) ==
    IF VecEq(a, b) THEN Ret("ordering", "Equal")
    ELSE IF \A i \in 1 .. Len(a) : a[i] >= b[i] THEN Ret("ordering", "Greater")
    ELSE IF \A i \in 1 .. Len(a) : a[i] <= b[i] THEN Ret("ordering", "Less")
    ELSE Ret("ordering", "None")

\* -------------------------------------------------------------- IndexSet
get_index_off(vals, i) ==
    IF i + 1 < Len(vals) THEN Some(vals[i + 2]) ELSE None

\* IndexSet::get_index
get_index(vals, i) == IF i < Len(vals) THEN Some(vals[i + 1]) ELSE None

insert_full_front(vals, v) ==
    IF \E i \in 1 .. Len(vals) : VecEq(vals[i], v)
    THEN [values |-> vals,
          index |-> (CHOOSE i \in 1 .. Len(vals) : VecEq(vals[i], v)) - 1,
          is_new |-> FALSE]
    ELSE [values |-> <<v>> \o vals, index |-> 0, is_new |-> TRUE]

insert_full_len(vals, v) ==
    IF \E i \in 1 .. Len(vals) : VecEq(vals[i], v)
    THEN [values |-> vals,
          index |-> (CHOOSE i \in 1 .. Len(vals) : VecEq(vals[i], v)) - 1,
          is_new |-> FALSE]
    ELSE [values |-> Append(vals, v), index |-> Len(vals) + 1, is_new |-> TRUE]

\* IndexSet::insert_full: (position, is_new); an equal entry keeps its place
insert_full(vals, v) ==
    IF \E i \in 1 .. Len(vals) : VecEq(vals[i], v)
    THEN [values |-> vals,
          index |-> (CHOOSE i \in 1 .. Len(vals) : VecEq(vals[i], v)) - 1,
          is_new |-> FALSE]
    ELSE [values |-> Append(vals, v), index |-> Len(vals), is_new |-> TRUE]

\* ---------------------------------------------------------- IndexedVecXs
\* IndexedVecXs::new
new(vals, idxs) == [values |-> vals, indices |-> idxs]

\* IndexedVecXs::empty
empty == [values |-> <<>>, indices |-> <<>>]

\* vec.into_iter().map(|value| values.insert_full(value).0).collect()
RECURSIVE FromVecLoop(_, _, _)
FromVecLoop(vec, vals, idxs) ==
    IF vec = <<>> THEN [values |-> vals, indices |-> idxs]
    ELSE LET r == insert_full(vals, Head(vec))
         IN  FromVecLoop(Tail(vec), r.values, Append(idxs, r.index))

from_vec_nodedup(vec) ==
    [values |-> vec, indices |-> [p \in 1 .. Len(vec) |-> p - 1]]

\* IndexedVecXs::from_vec
from_vec(vec) == FromVecLoop(vec, <<>>, <<>>)

insert_skip(c, v) ==
    LET r == insert_full(c.values, v)
    IN  [values |-> r.values,
         indices |-> IF r.is_new THEN Append(c.indices, r.index) ELSE c.indices,
         ret |-> r.is_new]

insert_last(c, v) ==
    LET r == insert_full(c.values, v)
    IN  [values |-> r.values,
         indices |-> Append(c.indices, Len(r.values) - 1),
         ret |-> r.is_new]

insert_found(c, v) ==
    LET r == insert_full(c.values, v)
    IN  [values |-> r.values, indices |-> Append(c.indices, r.index),
         ret |-> ~r.is_new]

\* IndexedVecXs::insert: the collection afterwards and the returned flag
insert(c, v) ==
    LET r == insert_full(c.values, v)
    IN  [values |-> r.values, indices |-> Append(c.indices, r.index),
         ret |-> r.is_new]

\* indices.iter().map(|i| values.get_index(*i).unwrap()).collect()
RECURSIVE MapUnwrap(_, _, _)
MapUnwrap(vals, idxs, acc) ==
    IF idxs = <<>> THEN Ret("seq", acc)
    ELSE LET o == get_index(vals, Head(idxs))
         IN  IF o.some THEN MapUnwrap(vals, Tail(idxs), Append(acc, o.val))
             ELSE Panic

\* IndexedVecXs::iter
iter(c) == MapUnwrap(c.values, c.indices, <<>>)

\* IndexedVecXs::to_ref_vec
to_ref_vec(c) == MapUnwrap(c.values, c.indices, <<>>)

\* IndexedVecXs::to_vec
to_vec(c) == MapUnwrap(c.values, c.indices, <<>>)

index_wrap(c, p) ==
    IF Len(c.indices) > 0
    THEN LET o == get_index(c.values, c.indices[(p % Len(c.indices)) + 1])
         IN  IF o.some THEN Ret("vec", o.val) ELSE Panic
    ELSE Panic

\* Index<usize> for IndexedVecXs
index(c, p) ==
    IF p < Len(c.indices)
    THEN LET o == get_index(c.values, c.indices[p + 1])
         IN  IF o.some THEN Ret("vec", o.val) ELSE Panic
    ELSE Panic

\* IndexedVecXIter::next: the cursor afterwards and the returned item
next(c, cur) ==
    IF cur < Len(c.indices)
    THEN [current_index |-> cur + 1, item |-> index(c, cur + 1)]
    ELSE [current_index |-> cur, item |-> Ret("none", <<>>)]

\* ----------------------------------------------------------------- state
VARIABLES
    values,         \* IndexedVecXs.values
    indices,        \* IndexedVecXs.indices
    built,          \* the constructor that made the collection, or "none"
    supplied,       \* history: the vectors given to from_vec and insert
    op, arg, ret,   \* the last call, its argument and its result
    iter_state,     \* IndexedVecXIter: "absent", "active", "ended", "panicked"
    current_index,  \* IndexedVecXIter.current_index
    yielded         \* history: the items next has returned

vars == <<values, indices, built, supplied, op, arg, ret,
          iter_state, current_index, yielded>>

coll == [values |-> values, indices |-> indices]
collVars == <<values, indices, built, supplied>>
iterVars == <<iter_state, current_index, yielded>>

Init ==
    /\ values = empty.values
    /\ indices = empty.indices
    /\ built = "none"
    /\ supplied = <<>>
    /\ op = "none"
    /\ arg = <<>>
    /\ ret = Ret("unit", <<>>)
    /\ iter_state = "absent"
    /\ current_index = 0
    /\ yielded = <<>>

\* no iterator borrows the collection
Owned == iter_state = "absent"
\* the driver holds a collection: one was constructed and not yet consumed
Live == built # "none"
\* the driver constructs a collection when it holds none
NoColl == built = "none"

\* ----------------------------------------------------- collection actions
Empty ==
    /\ Owned /\ NoColl
    /\ values' = empty.values
    /\ indices' = empty.indices
    /\ built' = "empty"
    /\ supplied' = <<>>
    /\ op' = "empty" /\ arg' = <<>> /\ ret' = Ret("unit", <<>>)
    /\ UNCHANGED iterVars

New(vals, idxs) ==
    /\ Owned /\ NoColl
    /\ values' = new(vals, idxs).values
    /\ indices' = new(vals, idxs).indices
    /\ built' = "new"
    /\ supplied' = <<>>
    /\ op' = "new" /\ arg' = <<vals, idxs>> /\ ret' = Ret("unit", <<>>)
    /\ UNCHANGED iterVars

FromVec(s) ==
    /\ Owned /\ NoColl
    /\ values' = from_vec(s).values
    /\ indices' = from_vec(s).indices
    /\ built' = "from_vec"
    /\ supplied' = s
    /\ op' = "from_vec" /\ arg' = s /\ ret' = Ret("unit", <<>>)
    /\ UNCHANGED iterVars

Insert(v) ==
    /\ Owned /\ Live
    /\ Len(indices) < MaxLen
    /\ values' = insert(coll, v).values
    /\ indices' = insert(coll, v).indices
    /\ supplied' = Append(supplied, v)
    /\ op' = "insert" /\ arg' = v /\ ret' = Ret("bool", insert(coll, v).ret)
    /\ UNCHANGED <<built, iterVars>>

Iter ==
    /\ Owned /\ Live
    /\ op' = "iter" /\ arg' = <<>> /\ ret' = iter(coll)
    /\ UNCHANGED <<collVars, iterVars>>

ToRefVec ==
    /\ Owned /\ Live
    /\ op' = "to_ref_vec" /\ arg' = <<>> /\ ret' = to_ref_vec(coll)
    /\ UNCHANGED <<collVars, iterVars>>

\* to_vec takes self by value: the collection is gone afterwards
ToVec ==
    /\ Owned /\ Live
    /\ values' = <<>>
    /\ indices' = <<>>
    /\ built' = "none"
    /\ supplied' = <<>>
    /\ op' = "to_vec" /\ arg' = <<>> /\ ret' = to_vec(coll)
    /\ UNCHANGED iterVars

Index(p) ==
    /\ Owned /\ Live
    /\ op' = "index" /\ arg' = p /\ ret' = index(coll, p)
    /\ UNCHANGED <<collVars, iterVars>>

\* IndexedVecXIter { collection, current_index: 0 }
IterStart ==
    /\ Owned /\ Live
    /\ iter_state' = "active"
    /\ current_index' = 0
    /\ yielded' = <<>>
    /\ op' = "iter_start" /\ arg' = <<>> /\ ret' = Ret("unit", <<>>)
    /\ UNCHANGED collVars

IterNext ==
    /\ iter_state = "active"
    /\ LET r == next(coll, current_index)
       IN  /\ current_index' = r.current_index
           /\ ret' = r.item
           /\ iter_state' = CASE r.item.kind = "panic" -> "panicked"
                              [] r.item.kind = "none" -> "ended"
                              [] OTHER -> "active"
           /\ yielded' = IF r.item.kind = "vec"
                         THEN Append(yielded, r.item.val) ELSE yielded
    /\ op' = "next" /\ arg' = <<>>
    /\ UNCHANGED collVars

IterDrop ==
    /\ iter_state \in {"ended", "panicked"}
    /\ iter_state' = "absent"
    /\ current_index' = 0
    /\ yielded' = <<>>
    /\ op' = "iter_drop" /\ arg' = <<>> /\ ret' = Ret("unit", <<>>)
    /\ UNCHANGED collVars

\* ----------------------------------------------------------- VecX actions
\* VecX is Copy and shares no state with a collection: each call takes its
\* receiver as an input, and is made while the driver holds no collection.
VecIndex(d, i) ==
    /\ Owned /\ NoColl
    /\ op' = "vecx_index" /\ arg' = [self |-> d, index |-> i]
    /\ ret' = vecx_index(d, i)
    /\ UNCHANGED <<collVars, iterVars>>

VecIndexMut(d, i, x) ==
    /\ Owned /\ NoColl
    /\ op' = "vecx_index_mut" /\ arg' = [self |-> d, index |-> i, value |-> x]
    /\ ret' = vecx_index_mut(d, i, x)
    /\ UNCHANGED <<collVars, iterVars>>

Fit(d, m) ==
    /\ Owned /\ NoColl
    /\ op' = "fit" /\ arg' = [self |-> d, M |-> m]
    /\ ret' = Ret("fit", fit(d, m))
    /\ UNCHANGED <<collVars, iterVars>>

PartialCmp(a, b) ==
    /\ Owned /\ NoColl
    /\ op' = "partial_cmp" /\ arg' = [self |-> a, other |-> b]
    /\ ret' = partial_cmp(a, b)
    /\ UNCHANGED <<collVars, iterVars>>

\* oc: the build has overflow checks (debug) or not (release)
Add(a, b, oc) ==
    /\ Owned /\ NoColl
    /\ op' = "add" /\ arg' = [self |-> a, rhs |-> b, overflow_checks |-> oc]
    /\ ret' = add(a, b, oc)
    /\ UNCHANGED <<collVars, iterVars>>

Sub(a, b, oc) ==
    /\ Owned /\ NoColl
    /\ op' = "sub" /\ arg' = [self |-> a, rhs |-> b, overflow_checks |-> oc]
    /\ ret' = sub(a, b, oc)
    /\ UNCHANGED <<collVars, iterVars>>

\* -------------------------------------------------------- specifications
NewValues == {s \in SeqsUpTo(Vecs, MaxNewLen) :
                \A i, j \in 1 .. Len(s) : i # j => s[i] # s[j]}
NewIndices == SeqsUpTo(0 .. MaxNewLen, MaxNewLen)
FromVecInputs == SeqsUpTo(Vecs, MaxLen) \cup {DocColors}
FitInputs == AnyVecs \cup {DocFitVec}

Next ==
    \/ Empty
    \/ \E vals \in NewValues, idxs \in NewIndices : New(vals, idxs)
    \/ \E s \in FromVecInputs : FromVec(s)
    \/ \E v \in Vecs : Insert(v)
    \/ Iter
    \/ ToRefVec
    \/ ToVec
    \/ \E p \in 0 .. MaxLen : Index(p)
    \/ IterStart
    \/ IterNext
    \/ IterDrop
    \/ \E d \in Vecs, i \in 0 .. ArityN + 1 : VecIndex(d, i)
    \/ \E d \in Vecs, i \in 0 .. ArityN + 1, x \in Elem : VecIndexMut(d, i, x)

Spec == Init /\ [][Next]_vars

NextVec ==
    \/ \E d \in FitInputs, i \in 0 .. MaxArity + 1 : VecIndex(d, i)
    \/ \E d \in FitInputs, i \in 0 .. MaxArity + 1, x \in Elem :
          VecIndexMut(d, i, x)
    \/ \E d \in FitInputs, m \in 0 .. MaxM : Fit(d, m)

SpecVec == Init /\ [][NextVec]_vars

\* operands of one arity N <= MaxOpArity
OpVecs == SeqsUpTo(Elem, MaxOpArity)
OpPairs == {q \in OpVecs \X OpVecs : Len(q[1]) = Len(q[2])}

NextOps ==
    \/ \E q \in OpPairs \cup DocCmpPairs : PartialCmp(q[1], q[2])
    \/ \E q \in OpPairs, oc \in BOOLEAN : Add(q[1], q[2], oc)
    \/ \E q \in OpPairs, oc \in BOOLEAN : Sub(q[1], q[2], oc)

SpecOps == Init /\ [][NextOps]_vars

\* ================================================================ claims
Built == built \in {"empty", "from_vec"}   \* made by empty or from_vec
NoDup(s) == \A i, j \in 1 .. Len(s) : i # j => s[i] # s[j]
Range(s) == {s[i] : i \in 1 .. Len(s)}
FirstOcc(s, v) == CHOOSE p \in 1 .. Len(s) : s[p] = v /\ \A q \in 1 .. p - 1 : s[q] # v

\* C1: from_vec(S) leaves in `values` the distinct elements of S in order of
\* first occurrence, without duplicates, and in `indices` one entry per
\* element of S, indices[p] being the position in `values` of S[p]; the doc
\* test's [A,B,A,A,C,B] gives [A,B,C] and [0,1,0,0,2,1].
C1_FromVecDedup ==
    op = "from_vec" =>
        /\ NoDup(values)
        /\ Range(values) = Range(arg)
        /\ \A i, j \in 1 .. Len(values) :
              i < j => FirstOcc(arg, values[i]) < FirstOcc(arg, values[j])
        /\ Len(indices) = Len(arg)
        /\ \A p \in 1 .. Len(indices) :
              /\ indices[p] \in 0 .. Len(values) - 1
              /\ values[indices[p] + 1] = arg[p]
        /\ arg = DocColors =>
              /\ values = <<DocColors[1], DocColors[2], DocColors[5]>>
              /\ indices = <<0, 1, 0, 0, 2, 1>>

C1_Witness ==
    /\ op = "from_vec" /\ arg = DocColors
    /\ Len(values) = 3
    /\ indices = <<0, 1, 0, 0, 2, 1>>

\* C2: in a collection made by empty or from_vec and any number of inserts,
\* indices has one entry per vector supplied so far and every entry is a
\* valid position into values.
C2_IndicesValid ==
    Built =>
        /\ Len(indices) = Len(supplied)
        /\ \A p \in 1 .. Len(indices) :
              0 <= indices[p] /\ indices[p] < Len(values)

C2_Witness ==
    /\ built = "from_vec" /\ op = "insert"
    /\ Len(indices) = 3 /\ Len(supplied) = 3 /\ Len(values) = 2

\* C3: in a collection made by empty or from_vec and any number of inserts,
\* two occurrences have the same index exactly when the two supplied vectors
\* are element-wise equal.
C3_SameIndexIffEqual ==
    Built =>
        \A p, q \in DOMAIN indices \cap DOMAIN supplied :
            (indices[p] = indices[q]) <=> (supplied[p] = supplied[q])

C3_Witness ==
    /\ Built /\ op = "insert" /\ Len(indices) = 3
    /\ indices[1] = indices[3] /\ indices[1] # indices[2]
    /\ supplied[1][1] = supplied[2][1]

\* C4: expanding a collection made from the sequence S (by from_vec, by
\* inserts, or both) with to_vec, to_ref_vec or iter gives S back, element
\* for element and in order.
C4_RoundTrip ==
    [][(Built /\ op' \in {"to_vec", "to_ref_vec", "iter"})
          => ret' = Ret("seq", supplied)]_vars

C4_Witness ==
    /\ built = "from_vec" /\ op = "to_ref_vec"
    /\ ret = Ret("seq", supplied)
    /\ Len(supplied) = 3 /\ Len(values) = 2

\* C5: insert(v) returns true exactly when v was not in values, and then
\* values gains v as its last entry; it returns false when v was present, and
\* then values is unchanged.  Either way indices gains one trailing entry,
\* the position of v in values, and its earlier entries are unchanged.
C5_InsertEffect ==
    [][op' = "insert" =>
          /\ ret'.kind = "bool"
          /\ ret'.val = (arg' \notin Range(values))
          /\ ret'.val => values' = Append(values, arg')
          /\ ~ret'.val => values' = values
          /\ Len(indices') = Len(indices) + 1
          /\ SubSeq(indices', 1, Len(indices)) = indices
          /\ indices'[Len(indices')] \in 0 .. Len(values') - 1
          /\ values'[indices'[Len(indices')] + 1] = arg']_vars

C5_Witness ==
    /\ op = "insert" /\ ret = Ret("bool", FALSE)
    /\ Len(indices) = 3 /\ Len(values) = 2
    /\ indices[3] = 0

\* C6: an insert never shortens values and leaves every entry it already
\* held at its position with its value.
C6_ValuesStable ==
    [][op' = "insert" =>
          /\ Len(values') >= Len(values)
          /\ \A i \in 1 .. Len(values) : values'[i] = values[i]]_vars

C6_Witness ==
    /\ op = "insert" /\ ret = Ret("bool", TRUE)
    /\ Len(values) = 3 /\ Len(indices) = 3
\* C7: iterating a collection made by empty, from_vec and inserts with
\* IndexedVecXIter from cursor 0 yields, as its k-th item, values[indices[k]]
\* for k = 0 .. indices.length - 1, then ends with None having yielded
\* indices.length items; no step reads outside [0, indices.length).
C7_IterInOrder ==
    (Built /\ iter_state # "absent") =>
        /\ iter_state # "panicked"
        /\ Len(yielded) <= Len(indices)
        /\ \A k \in 1 .. Len(yielded) :
              /\ k <= Len(indices)
              /\ indices[k] < Len(values)
              /\ yielded[k] = values[indices[k] + 1]
        /\ iter_state = "ended" => Len(yielded) = Len(indices)

\* C8: reading a collection at position p gives values[indices[p]] when
\* p < indices.length (and that entry exists) and panics when
\* p >= indices.length, never a default value nor a wrapped position;
\* reading or writing a VecX of arity N at a position >= N panics, and below
\* N reads, or writes, that element.
C8_OutOfRangePanics ==
    /\ op = "index" =>
          IF arg < Len(indices) /\ indices[arg + 1] < Len(values)
          THEN ret = Ret("vec", values[indices[arg + 1] + 1])
          ELSE ret.kind = "panic"
    /\ op = "vecx_index" =>
          IF arg.index < Len(arg.self)
          THEN ret = Ret("elem", arg.self[arg.index + 1])
          ELSE ret.kind = "panic"
    /\ op = "vecx_index_mut" =>
          IF arg.index < Len(arg.self)
          THEN /\ ret.kind = "vec"
               /\ Len(ret.val) = Len(arg.self)
               /\ \A k \in 1 .. Len(arg.self) :
                     ret.val[k] = IF k = arg.index + 1 THEN arg.value
                                  ELSE arg.self[k]
          ELSE ret.kind = "panic"

C8_Witness ==
    /\ Built /\ op = "index" /\ ret.kind = "panic"
    /\ Len(indices) = 2 /\ arg = 2

\* C9 as stated: every collection obtained through empty, from_vec, new and
\* insert has only valid positions in indices, and no read of it at a
\* position below indices.length fails.
C9_EveryCollectionWellFormed ==
    /\ [](built # "none" =>
            \A p \in 1 .. Len(indices) : indices[p] < Len(values))
    /\ [][built # "none" =>
            /\ op' \in {"to_vec", "to_ref_vec", "iter"} => ret'.kind = "seq"
            /\ (op' = "index" /\ arg' < Len(indices)) => ret'.kind = "vec"]_vars

\* C9 as amended: every collection obtained through empty, from_vec and
\* insert alone has only valid positions in indices, and no read of it
\* (index, iter, to_ref_vec, to_vec) at a position below indices.length
\* fails; new stores the caller's indices unchecked.
C9_BuiltWellFormed ==
    /\ [](Built => \A p \in 1 .. Len(indices) : indices[p] < Len(values))
    /\ [][Built =>
            /\ op' \in {"to_vec", "to_ref_vec", "iter"} => ret'.kind = "seq"
            /\ (op' = "index" /\ arg' < Len(indices)) => ret'.kind = "vec"]_vars

C9_Witness ==
    /\ built = "empty" /\ op = "index" /\ arg = 2 /\ ret.kind = "vec"
    /\ Len(indices) = 3 /\ Len(values) = 2

\* C10: fit::<M>() on a vector of arity N returns a vector of arity M: its
\* first M elements when M <= N; its N elements followed by M - N defaults
\* (zeros) when M > N, as in [1,2,3] -> [1,2] and [1,2,3,0,0]; the receiver
\* is unchanged.
C10_Fit ==
    op = "fit" =>
        LET v == arg.self
            m == arg.M
            r == ret.val.out
        IN  /\ ret.kind = "fit"
            /\ Len(r) = m
            /\ m <= Len(v) => r = SubSeq(v, 1, m)
            /\ m > Len(v) =>
                  /\ SubSeq(r, 1, Len(v)) = v
                  /\ \A i \in Len(v) + 1 .. m : r[i] = 0
            /\ ret.val.self = v
            /\ (v = <<1, 2, 3>> /\ m = 2) => r = <<1, 2>>
            /\ (v = <<1, 2, 3>> /\ m = 5) => r = <<1, 2, 3, 0, 0>>

C10_Witness ==
    /\ op = "fit" /\ arg.self = <<1, 2, 3>> /\ arg.M = 5
    /\ ret.val.out = <<1, 2, 3, 0, 0>>
\* C11: partial_cmp on two vectors of one arity is Equal exactly when they
\* are element-wise equal; otherwise Greater exactly when every left element
\* is >= the right one; otherwise Less exactly when every left element is <=
\* the right one; otherwise None.  So equal vectors are both >= and <=,
\* [1,2,3] < [4,5,6], and [1,2,1] against [2,1,2] is neither <, > nor ==.
C11_PartialCmp ==
    op = "partial_cmp" =>
        LET a == arg.self
            b == arg.other
            AllGe == \A i \in 1 .. Len(a) : a[i] >= b[i]
            AllLe == \A i \in 1 .. Len(a) : a[i] <= b[i]
            Ge == ret.val \in {"Greater", "Equal"}
            Le == ret.val \in {"Less", "Equal"}
        IN  /\ ret.kind = "ordering"
            /\ ret.val \in {"Equal", "Greater", "Less", "None"}
            /\ ret.val = "Equal" <=> a = b
            /\ ret.val = "Greater" <=> (a # b /\ AllGe)
            /\ ret.val = "Less" <=> (a # b /\ ~AllGe /\ AllLe)
            /\ ret.val = "None" <=> (a # b /\ ~AllGe /\ ~AllLe)
            /\ a = b => (Ge /\ Le)
            /\ (a = <<1, 2, 3>> /\ b = <<4, 5, 6>>) => ret.val = "Less"
            /\ (a = <<1, 2, 1>> /\ b = <<2, 1, 2>>) => ret.val = "None"

C11_Witness ==
    /\ op = "partial_cmp"
    /\ arg.self = <<1, 2, 1>> /\ arg.other = <<2, 1, 2>>
    /\ ret = Ret("ordering", "None")
\* a step that subtracts, in the same build, the right operand of the sum
\* just computed from that sum
SubAfterAdd ==
    /\ op = "add" /\ ret.kind = "vec"
    /\ op' = "sub"
    /\ arg'.self = ret.val
    /\ arg'.rhs = arg.rhs
    /\ arg'.overflow_checks = arg.overflow_checks

SumOverflows == \E i \in 1 .. Len(arg.self) : arg.self[i] + arg.rhs[i] > MaxElem

\* C12 as stated: for all vectors a, b of one arity over a bounded-width
\* integer type, up to its minimum and maximum, a + b is computed and
\* (a + b) - b == a.
C12_AddSubRoundTrip ==
    /\ [](op = "add" => ret.kind = "vec")
    /\ [][SubAfterAdd => ret' = Ret("vec", arg.self)]_vars

\* C12 as amended: a + b is computed unless some element-wise sum leaves the
\* type's range in a build with overflow checks, where it panics; whenever
\* a + b is computed (in range, or wrapped in a build without overflow
\* checks), (a + b) - b == a.
C12_AddSubUnlessOverflowPanic ==
    /\ [](op = "add" =>
            /\ ret.kind = "panic" <=> (arg.overflow_checks /\ SumOverflows)
            /\ (ret.kind = "vec" /\ ~SumOverflows) =>
                  /\ Len(ret.val) = Len(arg.self)
                  /\ \A i \in 1 .. Len(arg.self) :
                        ret.val[i] = arg.self[i] + arg.rhs[i])
    /\ [][SubAfterAdd => ret' = Ret("vec", arg.self)]_vars

C12_Witness ==
    /\ op = "sub" /\ ~arg.overflow_checks /\ ret.kind = "vec"
    /\ Len(arg.self) = 2
    /\ arg.self[1] < arg.rhs[1]
    /\ ret.val[1] = arg.self[1] - arg.rhs[1] + MaxElem + 1
\* C13: the collection obtained from empty() by inserting the elements of S
\* in order has the same values, at the same positions, and the same indices
\* as from_vec(S).
C13_InsertsEqualFromVec ==
    built = "empty" =>
        /\ values = from_vec(supplied).values
        /\ indices = from_vec(supplied).indices

C13_Witness ==
    /\ built = "empty" /\ op = "insert"
    /\ Len(supplied) = 3 /\ Len(values) = 2
    /\ supplied[1] = supplied[3]
    /\ indices = from_vec(supplied).indices
====
